---- MODULE Spec2Model ----
(***************************************************************************)
(* Model of the interview page (frontend/src/app/interview/page.tsx).      *)
(*                                                                         *)
(* The page is a React component: its state is the set of useState cells,  *)
(* the pending setTimeout callbacks, the setInterval of the elapsed-time   *)
(* effect and the position of the async startSession call.  Every event    *)
(* handler or timer callback runs to completion and its state updates are  *)
(* committed together, so each one is a single action.                     *)
(*                                                                         *)
(* Time is discrete, one unit = 500 ms (the gcd of the four delays in the  *)
(* source).  A timer callback runs when its countdown is 0, and the clock  *)
(* cannot advance past a due callback.  Score values are in tenths.        *)
(***************************************************************************)
EXTENDS Integers, Sequences, FiniteSets

VARIABLES
    startPc,       \* position of startSession: "fetching" | "done"
    sessionId,     \* "null" | "srv" | "demo-session"
    isRecording,
    isProcessing,
    isAISpeaking,
    messages,      \* sequence of Message records
    score,         \* NullScore or a Score record
    sessionEnded,
    time,          \* elapsed seconds shown in the header
    timers,        \* pending setTimeout callbacks, in creation order
    interval,      \* countdown of the setInterval, NoTimer when not installed
    clock,         \* wall clock (units of 500 ms), the source of new Date()
    accepted,      \* history: number of stopRecording calls so far
    prevRun,       \* history: transcript and overall score of the page's
                   \* previous run (before "New Session"), NoRun if none
    \* the turn-taking pipeline behind the page (sections 4 to 7 of the
    \* design)
    coord,         \* TurnCoordinator state
    buffer,        \* AudioIngestBuffer: expected sequence number and chunks
    lastResult,    \* the last audio submission and the answer to it
    prompt,        \* prompt surfaced to the student: "none" | "retry"
    transcript,    \* the Session's ordered Turns
    turnNo,        \* number of the current PipelineRequest
    cancelled,     \* PipelineRequests whose cancellation token is set
    corpus,        \* relevance of each indexed passage, in insertion order
    topK,          \* configured number of passages to retrieve
    passages,      \* RetrievedPassages of the current turn
    genCount,      \* sentences generated so far for the current utterance
    genDone,       \* the generation of the current utterance is complete
    calls,         \* synthesis calls awaiting the engine's response
    ready,         \* synthesized segments waiting in the output queue
    nextEmit,      \* per-utterance sequence counter of the output queue
    delivered,     \* segments received by the consumer for this utterance
    display        \* the elapsed time as rendered in the header

pageVars == <<startPc, sessionId, isRecording, isProcessing, isAISpeaking,
              messages, score, sessionEnded, time, timers, interval, clock,
              accepted>>

\* what the handlers and callbacks of one page run never touch
pipeVars == <<coord, buffer, lastResult, prompt, transcript, turnNo,
              cancelled, corpus, topK, passages, genCount, genDone, calls, ready,
              nextEmit, delivered>>

offPage == <<prevRun, pipeVars, display>>

vars == <<pageVars, offPage>>

----------------------------------------------------------------------------
(* Bounds *)

MaxClock == 16
MaxChunks == 3        \* audio chunks carry sequence numbers 0..MaxChunks
MaxPipeTurns == 2     \* finalized utterances per pipeline session
MaxSentences == 2     \* sentences per interviewer utterance
MaxCorpus == 4        \* passages in the index (retrieval on its own)
MaxTopK == 3          \* top_k values tried (retrieval on its own)
MaxPipeCorpus == 1    \* passages in the index of a pipeline session
MaxRelevance == 2     \* relevance scores are 0..MaxRelevance
MaxSeconds == 6100    \* elapsed seconds given to formatTime

----------------------------------------------------------------------------
(* Delays of the source, in units of 500 ms *)

GreetingDelay == 6
ProcessingDelay == 3
ReplyDelay == 4
IntervalDelay == 2

NoTimer == -1

----------------------------------------------------------------------------
(* Values *)

NullScore == [isNull |-> TRUE]

NoRun == [isNone |-> TRUE]

\* variant: the scores are given as percentages
MockScorePercent ==
    [technical_accuracy |-> 850,
     clarity            |-> 780,
     depth              |-> 720,
     confidence         |-> 800,
     communication      |-> 830,
     overall            |-> 790,
     feedback           |-> "Strong understanding of fundamentals."]

MockScore ==
    [technical_accuracy |-> 85,
     clarity            |-> 78,
     depth              |-> 72,
     confidence         |-> 80,
     communication      |-> 83,
     overall            |-> 79,
     feedback           |-> "Strong understanding of fundamentals."]

RECURSIVE Digits(_)
Digits(n) == IF n < 10 THEN <<n>> ELSE Append(Digits(n \div 10), n % 10)

\* String(n) of a non-negative integer: its decimal digits
String(n) == Digits(n)

NoDisplay == <<>>

\* the ':' of the rendered time, the other characters being digits 0..9
Colon == -1

\* variant: the string is left as it is
PadStartOmitted(str, len, fill) == str

RECURSIVE PadStart(_, _, _)
\* str.padStart(len, fill) for a one-character fill
PadStart(str, len, fill) ==
    IF Len(str) >= len THEN str ELSE PadStart(<<fill>> \o str, len, fill)

formatTime(seconds) ==
    LET mins == seconds \div 60
        secs == seconds % 60
    IN  PadStart(String(mins), 2, 0) \o <<Colon>> \o PadStart(String(secs), 2, 0)

Message(i, r, c) ==
    [id |-> i, role |-> r, content |-> c, timestamp |-> clock]

Greeting == Message(<<1>>, "assistant", "greeting")

Timer(k) ==
    [kind |-> k,
     rem  |-> CASE k = "greeting"   -> GreetingDelay
                [] k = "processing" -> ProcessingDelay
                [] k = "reply"      -> ReplyDelay]

RemoveAt(s, i) == SubSeq(s, 1, i - 1) \o SubSeq(s, i + 1, Len(s))

\* variant: the interval is kept after the session has ended
TimerEffectIgnoringEnded(sid, ended, cur) ==
    IF sid # "null"
    THEN (IF cur = NoTimer THEN IntervalDelay ELSE cur)
    ELSE NoTimer

\* the timer effect: an interval is installed while sessionId && !sessionEnded
TimerEffect(sid, ended, cur) ==
    IF sid # "null" /\ ~ended
    THEN (IF cur = NoTimer THEN IntervalDelay ELSE cur)
    ELSE NoTimer

EmptyBuffer == [expected |-> 0, chunks |-> <<>>]

NoSubmission == [seq |-> -1, eou |-> FALSE, result |-> "none"]

Submission(seq, eou, res) == [seq |-> seq, eou |-> eou, result |-> res]

\* configuration input
TopK == 2

\* the pipeline of a Session that was just created, over a given index
PipelineStart(c) ==
    /\ coord = "AwaitingStudent"
    /\ buffer = EmptyBuffer
    /\ lastResult = NoSubmission
    /\ prompt = "none"
    /\ transcript = <<>>
    /\ turnNo = 0
    /\ cancelled = {}
    /\ corpus = c
    /\ topK = TopK
    /\ passages = <<>>
    /\ genCount = 0
    /\ genDone = FALSE
    /\ calls = {}
    /\ ready = {}
    /\ nextEmit = 0
    /\ delivered = <<>>

----------------------------------------------------------------------------
PageStart ==
    /\ startPc = "fetching"
    /\ sessionId = "null"
    /\ isRecording = FALSE
    /\ isProcessing = FALSE
    /\ isAISpeaking = FALSE
    /\ messages = <<>>
    /\ score = NullScore
    /\ sessionEnded = FALSE
    /\ time = 0
    /\ timers = <<>>
    /\ interval = NoTimer
    /\ clock = 0
    /\ accepted = 0
    /\ prevRun = NoRun
    /\ display = NoDisplay

Init ==
    /\ PageStart
    /\ PipelineStart(<<>>)

----------------------------------------------------------------------------
(* startSession: the three ways the awaited fetch can complete *)

StartSessionOk ==
    /\ startPc = "fetching"
    /\ startPc' = "done"
    /\ sessionId' = "srv"
    /\ messages' = <<Greeting>>
    /\ isAISpeaking' = TRUE
    /\ timers' = Append(timers, Timer("greeting"))
    /\ interval' = TimerEffect("srv", sessionEnded, interval)
    /\ UNCHANGED <<isRecording, isProcessing, score, sessionEnded, time,
                   clock, accepted>>
    /\ UNCHANGED offPage

StartSessionNotOk ==
    /\ startPc = "fetching"
    /\ startPc' = "done"
    /\ UNCHANGED <<sessionId, isRecording, isProcessing, isAISpeaking,
                   messages, score, sessionEnded, time, timers, interval,
                   clock, accepted>>
    /\ UNCHANGED offPage

StartSessionError ==
    /\ startPc = "fetching"
    /\ startPc' = "done"
    /\ sessionId' = "demo-session"
    /\ messages' = <<Greeting>>
    /\ interval' = TimerEffect("demo-session", sessionEnded, interval)
    /\ UNCHANGED <<isRecording, isProcessing, isAISpeaking, score,
                   sessionEnded, time, timers, clock, accepted>>
    /\ UNCHANGED offPage

GreetingTimer ==
    \E i \in 1..Len(timers) :
        /\ timers[i].kind = "greeting"
        /\ timers[i].rem = 0
        /\ isAISpeaking' = FALSE
        /\ timers' = RemoveAt(timers, i)
        /\ UNCHANGED <<startPc, sessionId, isRecording, isProcessing,
                       messages, score, sessionEnded, time, interval, clock,
                       accepted>>
        /\ UNCHANGED offPage

----------------------------------------------------------------------------
(* The record button *)

\* variant: the audio controls stay on the page after the session ended
RecordButtonAlwaysRendered == TRUE

RecordButtonRendered == ~sessionEnded

\* variant: the button is disabled only while processing
RecordButtonDisabledWhileProcessing == isProcessing

RecordButtonDisabled == isProcessing \/ isAISpeaking

StartRecording ==
    /\ RecordButtonRendered
    /\ ~RecordButtonDisabled
    /\ ~isRecording
    /\ isRecording' = TRUE
    /\ UNCHANGED <<startPc, sessionId, isProcessing, isAISpeaking, messages,
                   score, sessionEnded, time, timers, interval, clock,
                   accepted>>
    /\ UNCHANGED offPage

StopRecording ==
    /\ RecordButtonRendered
    /\ ~RecordButtonDisabled
    /\ isRecording
    /\ isRecording' = FALSE
    /\ isProcessing' = TRUE
    /\ timers' = Append(timers, Timer("processing"))
    /\ accepted' = accepted + 1
    /\ UNCHANGED <<startPc, sessionId, isAISpeaking, messages, score,
                   sessionEnded, time, interval, clock>>
    /\ UNCHANGED offPage

\* variant: the student Turn is put in front of the transcript
ProcessingTimerPrepending ==
    \E i \in 1..Len(timers) :
        /\ timers[i].kind = "processing"
        /\ timers[i].rem = 0
        /\ messages' = <<Message(String(Len(messages) + 1), "user", "answer")>>
                          \o messages
        /\ isProcessing' = FALSE
        /\ isAISpeaking' = TRUE
        /\ timers' = Append(RemoveAt(timers, i), Timer("reply"))
        /\ UNCHANGED <<startPc, sessionId, isRecording, score, sessionEnded,
                       time, interval, clock, accepted>>
        /\ UNCHANGED offPage

\* variant: the id is the length of the transcript before the append
ProcessingTimerOffByOneId ==
    \E i \in 1..Len(timers) :
        /\ timers[i].kind = "processing"
        /\ timers[i].rem = 0
        /\ messages' = Append(messages,
                          Message(String(Len(messages)), "user", "answer"))
        /\ isProcessing' = FALSE
        /\ isAISpeaking' = TRUE
        /\ timers' = Append(RemoveAt(timers, i), Timer("reply"))
        /\ UNCHANGED <<startPc, sessionId, isRecording, score, sessionEnded,
                       time, interval, clock, accepted>>
        /\ UNCHANGED offPage

ProcessingTimer ==
    \E i \in 1..Len(timers) :
        /\ timers[i].kind = "processing"
        /\ timers[i].rem = 0
        /\ messages' = Append(messages,
                          Message(String(Len(messages) + 1), "user", "answer"))
        /\ isProcessing' = FALSE
        /\ isAISpeaking' = TRUE
        /\ timers' = Append(RemoveAt(timers, i), Timer("reply"))
        /\ UNCHANGED <<startPc, sessionId, isRecording, score, sessionEnded,
                       time, interval, clock, accepted>>
        /\ UNCHANGED offPage

\* variant: the reply is appended but the speaking flag is left on
ReplyTimerStillSpeaking ==
    \E i \in 1..Len(timers) :
        /\ timers[i].kind = "reply"
        /\ timers[i].rem = 0
        /\ messages' = Append(messages,
                          Message(String(Len(messages) + 1), "assistant",
                                  "followup"))
        /\ timers' = RemoveAt(timers, i)
        /\ UNCHANGED <<startPc, sessionId, isRecording, isProcessing,
                       isAISpeaking, score, sessionEnded, time, interval,
                       clock, accepted>>
        /\ UNCHANGED offPage

ReplyTimer ==
    \E i \in 1..Len(timers) :
        /\ timers[i].kind = "reply"
        /\ timers[i].rem = 0
        /\ messages' = Append(messages,
                          Message(String(Len(messages) + 1), "assistant",
                                  "followup"))
        /\ isAISpeaking' = FALSE
        /\ timers' = RemoveAt(timers, i)
        /\ UNCHANGED <<startPc, sessionId, isRecording, isProcessing, score,
                       sessionEnded, time, interval, clock, accepted>>
        /\ UNCHANGED offPage

----------------------------------------------------------------------------
(* End Session button *)

\* variant: the End Session button is hidden while a turn is processed
EndButtonRenderedWhenIdle == ~sessionEnded /\ ~isProcessing

EndButtonRendered == ~sessionEnded

\* variant: the session is marked ended and the score is left for later
EndSessionWithoutScore ==
    /\ EndButtonRendered
    /\ sessionEnded' = TRUE
    /\ interval' = TimerEffect(sessionId, TRUE, interval)
    /\ UNCHANGED <<startPc, sessionId, isRecording, isProcessing,
                   isAISpeaking, messages, score, time, timers, clock,
                   accepted>>
    /\ UNCHANGED offPage

\* variant: the button stays rendered and a later click scores again, with
\* the templated feedback
EndSessionRescoring ==
    /\ sessionEnded' = TRUE
    /\ score' = IF sessionEnded
                THEN [MockScore EXCEPT !.feedback = "templated"]
                ELSE MockScore
    /\ interval' = TimerEffect(sessionId, TRUE, interval)
    /\ UNCHANGED <<startPc, sessionId, isRecording, isProcessing,
                   isAISpeaking, messages, time, timers, clock, accepted>>
    /\ UNCHANGED offPage

\* variant: the overall score is lowered by the elapsed time
EndSessionTimedScore ==
    /\ EndButtonRendered
    /\ sessionEnded' = TRUE
    /\ score' = [MockScore EXCEPT !.overall = @ - time]
    /\ interval' = TimerEffect(sessionId, TRUE, interval)
    /\ UNCHANGED <<startPc, sessionId, isRecording, isProcessing,
                   isAISpeaking, messages, time, timers, clock, accepted>>
    /\ UNCHANGED offPage

EndSession ==
    /\ EndButtonRendered
    /\ sessionEnded' = TRUE
    /\ score' = MockScore
    /\ interval' = TimerEffect(sessionId, TRUE, interval)
    /\ UNCHANGED <<startPc, sessionId, isRecording, isProcessing,
                   isAISpeaking, messages, time, timers, clock, accepted>>
    /\ UNCHANGED offPage

----------------------------------------------------------------------------
(* Elapsed-time interval and the passage of time *)

IntervalTick ==
    /\ interval = 0
    /\ time' = time + 1
    /\ interval' = IntervalDelay
    /\ UNCHANGED <<startPc, sessionId, isRecording, isProcessing,
                   isAISpeaking, messages, score, sessionEnded, timers,
                   clock, accepted>>
    /\ UNCHANGED offPage

Advance ==
    /\ clock < MaxClock
    /\ interval # 0
    /\ \A i \in 1..Len(timers) : timers[i].rem > 0
    /\ clock' = clock + 1
    /\ timers' = [i \in 1..Len(timers) |->
                     [timers[i] EXCEPT !.rem = @ - 1]]
    /\ interval' = IF interval = NoTimer THEN NoTimer ELSE interval - 1
    /\ UNCHANGED <<startPc, sessionId, isRecording, isProcessing,
                   isAISpeaking, messages, score, sessionEnded, time,
                   accepted>>
    /\ UNCHANGED offPage

----------------------------------------------------------------------------
Next ==
    \/ StartSessionOk
    \/ StartSessionNotOk
    \/ StartSessionError
    \/ GreetingTimer
    \/ StartRecording
    \/ StopRecording
    \/ ProcessingTimer
    \/ ReplyTimer
    \/ EndSession
    \/ IntervalTick
    \/ Advance

Spec == Init /\ [][Next]_vars

\* the event loop runs every due callback and time passes
FairSpec ==
    /\ Spec
    /\ WF_vars(GreetingTimer)
    /\ WF_vars(ProcessingTimer)
    /\ WF_vars(ReplyTimer)
    /\ WF_vars(IntervalTick)
    /\ WF_vars(Advance)

----------------------------------------------------------------------------
(* Successive runs of the page: the "New Session" button of the score     *)
(* panel reloads the page, which starts again from its initial state.     *)

\* the transcript without its timestamps
Transcript(m) ==
    [i \in 1..Len(m) |->
        [id |-> m[i].id, role |-> m[i].role, content |-> m[i].content]]

ScorePanelRendered == sessionEnded /\ score # NullScore

NewSession ==
    /\ ScorePanelRendered
    /\ prevRun' = [transcript |-> Transcript(messages),
                   overall |-> score.overall]
    /\ startPc' = "fetching"
    /\ sessionId' = "null"
    /\ isRecording' = FALSE
    /\ isProcessing' = FALSE
    /\ isAISpeaking' = FALSE
    /\ messages' = <<>>
    /\ score' = NullScore
    /\ sessionEnded' = FALSE
    /\ time' = 0
    /\ timers' = <<>>
    /\ interval' = NoTimer
    /\ clock' = 0
    /\ accepted' = 0
    /\ UNCHANGED <<pipeVars, display>>

RunsNext ==
    \/ Next
    \/ NewSession

RunsSpec == Init /\ [][RunsNext]_vars


----------------------------------------------------------------------------
(* The turn-taking pipeline (TurnCoordinator, AudioIngestBuffer,           *)
(* TranscriptionStage, KnowledgeRetriever, DialogueEngine, SynthesisStage) *)
(* that the page calls.                                                    *)

\* configuration inputs
RelevanceFloor == 0
Backlog == 2

Corpora(max) == UNION {[1..n -> 0..MaxRelevance] : n \in 0..max}

Front(s) == SubSeq(s, 1, Len(s) - 1)
Last(s) == s[Len(s)]

RECURSIVE AboveFloor(_, _)
\* the passages of the first n documents that are above the relevance floor,
\* in insertion order
AboveFloor(c, n) ==
    IF n = 0 THEN <<>>
    ELSE IF c[n] > RelevanceFloor
         THEN Append(AboveFloor(c, n - 1), [doc |-> n, relevance |-> c[n]])
         ELSE AboveFloor(c, n - 1)

RECURSIVE InsertRankedBeforeTies(_, _)
\* variant: a passage is placed before the passages of equal relevance
InsertRankedBeforeTies(s, p) ==
    IF s = <<>> THEN <<p>>
    ELSE IF Last(s).relevance > p.relevance THEN Append(s, p)
         ELSE Append(InsertRankedBeforeTies(Front(s), p), Last(s))

RECURSIVE InsertRanked(_, _)
\* p placed after every passage of s whose relevance is at least p's
InsertRanked(s, p) ==
    IF s = <<>> THEN <<p>>
    ELSE IF Last(s).relevance >= p.relevance THEN Append(s, p)
         ELSE Append(InsertRanked(Front(s), p), Last(s))

RECURSIVE Ranked(_)
Ranked(s) == IF s = <<>> THEN <<>> ELSE InsertRanked(Ranked(Front(s)), Last(s))

Take(s, k) == SubSeq(s, 1, IF Len(s) < k THEN Len(s) ELSE k)

\* KnowledgeRetriever.retrieve(query, top_k); c gives the relevance of each
\* indexed passage to the query
retrieve(c, k) == Take(Ranked(AboveFloor(c, Len(c))), k)

Turn(sp, n, txt) == [speaker |-> sp, turn |-> n, text |-> txt]

RequestActive ==
    coord \in {"Transcribing", "Retrieving", "Generating", "Synthesizing",
               "Delivering", "Cancelling"}

PipelineInit ==
    /\ PageStart
    /\ \E c \in Corpora(MaxPipeCorpus) : PipelineStart(c)

(* Audio submission *)

SubmitChunkAccepted ==
    \E seq \in 0..MaxChunks, eou \in BOOLEAN :
        /\ coord = "AwaitingStudent"
        /\ seq = buffer.expected
        /\ lastResult' = Submission(seq, eou, "ack")
        /\ IF eou
           THEN /\ turnNo < MaxPipeTurns
                /\ buffer' = EmptyBuffer
                /\ coord' = "Transcribing"
                /\ turnNo' = turnNo + 1
                /\ prompt' = "none"
                /\ passages' = <<>>
                /\ genCount' = 0
                /\ genDone' = FALSE
                /\ ready' = {}
                /\ nextEmit' = 0
                /\ delivered' = <<>>
           ELSE /\ buffer' = [expected |-> seq + 1,
                              chunks |-> Append(buffer.chunks, seq)]
                /\ UNCHANGED <<coord, turnNo, prompt, passages, genCount,
                               genDone, ready, nextEmit, delivered>>
        /\ UNCHANGED <<transcript, cancelled, corpus, calls>>
        /\ UNCHANGED <<pageVars, prevRun, topK, display>>

\* variant: a chunk after a gap is taken into the buffer
SubmitChunkGapTolerated ==
    \E seq \in 0..MaxChunks, eou \in BOOLEAN :
        /\ coord = "AwaitingStudent"
        /\ seq # buffer.expected
        /\ lastResult' = Submission(seq, eou, "ack")
        /\ buffer' = [expected |-> seq + 1,
                      chunks |-> Append(buffer.chunks, seq)]
        /\ UNCHANGED <<coord, prompt, transcript, turnNo, cancelled,
                       corpus, passages, genCount, genDone, calls, ready,
                       nextEmit, delivered>>
        /\ UNCHANGED <<pageVars, prevRun, topK, display>>

SubmitChunkOutOfOrder ==
    \E seq \in 0..MaxChunks, eou \in BOOLEAN :
        /\ coord = "AwaitingStudent"
        /\ seq # buffer.expected
        /\ lastResult' = Submission(seq, eou, "OutOfOrderChunk")
        /\ UNCHANGED <<coord, buffer, prompt, transcript, turnNo, cancelled,
                       corpus, passages, genCount, genDone, calls, ready,
                       nextEmit, delivered>>
        /\ UNCHANGED <<pageVars, prevRun, topK, display>>

SubmitChunkTurnInProgress ==
    \E seq \in 0..MaxChunks, eou \in BOOLEAN :
        /\ coord # "AwaitingStudent"
        /\ lastResult' = Submission(seq, eou, "TurnInProgress")
        /\ UNCHANGED <<coord, buffer, prompt, transcript, turnNo, cancelled,
                       corpus, passages, genCount, genDone, calls, ready,
                       nextEmit, delivered>>
        /\ UNCHANGED <<pageVars, prevRun, topK, display>>

(* TranscriptionStage *)

TranscribeOk ==
    /\ coord = "Transcribing"
    /\ transcript' = Append(transcript, Turn("student", turnNo, "answer"))
    /\ coord' = "Retrieving"
    /\ UNCHANGED <<buffer, lastResult, prompt, turnNo, cancelled, corpus,
                   passages, genCount, genDone, calls, ready, nextEmit,
                   delivered>>
    /\ UNCHANGED <<pageVars, prevRun, topK, display>>

\* variant: a failed transcription is recorded as a student Turn with
\* empty text
TranscriptionUnavailableEmptyTurn ==
    /\ coord = "Transcribing"
    /\ coord' = "AwaitingStudent"
    /\ prompt' = "retry"
    /\ transcript' = Append(transcript, Turn("student", turnNo, ""))
    /\ UNCHANGED <<buffer, lastResult, turnNo, cancelled, corpus,
                   passages, genCount, genDone, calls, ready, nextEmit,
                   delivered>>
    /\ UNCHANGED <<pageVars, prevRun, topK, display>>

TranscriptionUnavailable ==
    /\ coord = "Transcribing"
    /\ coord' = "AwaitingStudent"
    /\ prompt' = "retry"
    /\ UNCHANGED <<buffer, lastResult, transcript, turnNo, cancelled, corpus,
                   passages, genCount, genDone, calls, ready, nextEmit,
                   delivered>>
    /\ UNCHANGED <<pageVars, prevRun, topK, display>>

(* KnowledgeRetriever *)

\* variant: an empty retrieval is treated as a failure of the turn
RetrieveFailingOnEmpty ==
    /\ coord = "Retrieving"
    /\ passages' = retrieve(corpus, topK)
    /\ coord' = IF passages' = <<>> THEN "AwaitingStudent" ELSE "Generating"
    /\ prompt' = IF passages' = <<>> THEN "retry" ELSE prompt
    /\ UNCHANGED <<buffer, lastResult, transcript, turnNo, cancelled,
                   corpus, genCount, genDone, calls, ready, nextEmit,
                   delivered>>
    /\ UNCHANGED <<pageVars, prevRun, topK, display>>

Retrieve ==
    /\ coord = "Retrieving"
    /\ passages' = retrieve(corpus, topK)
    /\ coord' = "Generating"
    /\ UNCHANGED <<buffer, lastResult, prompt, transcript, turnNo, cancelled,
                   corpus, genCount, genDone, calls, ready, nextEmit,
                   delivered>>
    /\ UNCHANGED <<pageVars, prevRun, topK, display>>

(* DialogueEngine: one complete sentence at a time, handed to synthesis *)

CurrentCalls == {c \in calls : c.turn = turnNo}

GenerateSentence ==
    /\ coord \in {"Generating", "Synthesizing"}
    /\ ~genDone
    /\ genCount < MaxSentences
    /\ Cardinality(CurrentCalls) + Cardinality(ready) < Backlog
    /\ genCount' = genCount + 1
    /\ calls' = calls \cup {[turn |-> turnNo, idx |-> genCount]}
    /\ coord' = "Synthesizing"
    /\ UNCHANGED <<buffer, lastResult, prompt, transcript, turnNo, cancelled,
                   corpus, passages, genDone, ready, nextEmit, delivered>>
    /\ UNCHANGED <<pageVars, prevRun, topK, display>>

GenerationComplete ==
    /\ coord = "Synthesizing"
    /\ ~genDone
    /\ genDone' = TRUE
    /\ UNCHANGED <<coord, buffer, lastResult, prompt, transcript, turnNo,
                   cancelled, corpus, passages, genCount, calls, ready,
                   nextEmit, delivered>>
    /\ UNCHANGED <<pageVars, prevRun, topK, display>>

(* SynthesisStage: calls complete in any order; a call whose request was *)
(* cancelled has no effect                                               *)

Segment(c, k) == [idx |-> c.idx, kind |-> k]

SynthesizeOk ==
    \E c \in calls :
        /\ calls' = calls \ {c}
        /\ ready' = IF c.turn \in cancelled THEN ready
                    ELSE ready \cup {Segment(c, "audio")}
        /\ UNCHANGED <<coord, buffer, lastResult, prompt, transcript, turnNo,
                       cancelled, corpus, passages, genCount, genDone,
                       nextEmit, delivered>>
        /\ UNCHANGED <<pageVars, prevRun, topK, display>>

\* variant: a failed synthesis call ends the session
SynthesisUnavailableAborting ==
    \E c \in calls :
        /\ calls' = calls \ {c}
        /\ coord' = IF c.turn \in cancelled THEN coord ELSE "Ended"
        /\ UNCHANGED <<buffer, lastResult, prompt, transcript, turnNo,
                       cancelled, corpus, passages, genCount, genDone,
                       ready, nextEmit, delivered>>
        /\ UNCHANGED <<pageVars, prevRun, topK, display>>

SynthesisUnavailable ==
    \E c \in calls :
        /\ calls' = calls \ {c}
        /\ ready' = IF c.turn \in cancelled THEN ready
                    ELSE ready \cup {Segment(c, "text")}
        /\ UNCHANGED <<coord, buffer, lastResult, prompt, transcript, turnNo,
                       cancelled, corpus, passages, genCount, genDone,
                       nextEmit, delivered>>
        /\ UNCHANGED <<pageVars, prevRun, topK, display>>

\* variant: the output queue hands over segments as they complete
EmitSegmentAsCompleted ==
    \E r \in ready :
        /\ coord = "Synthesizing"
        /\ delivered' = Append(delivered, r)
        /\ ready' = ready \ {r}
        /\ nextEmit' = nextEmit + 1
        /\ UNCHANGED <<coord, buffer, lastResult, prompt, transcript, turnNo,
                       cancelled, corpus, passages, genCount, genDone, calls>>
        /\ UNCHANGED <<pageVars, prevRun, topK, display>>

\* the output queue hands over the segment the sequence counter asks for
EmitSegment ==
    \E r \in ready :
        /\ coord = "Synthesizing"
        /\ r.idx = nextEmit
        /\ delivered' = Append(delivered, r)
        /\ ready' = ready \ {r}
        /\ nextEmit' = nextEmit + 1
        /\ UNCHANGED <<coord, buffer, lastResult, prompt, transcript, turnNo,
                       cancelled, corpus, passages, genCount, genDone, calls>>
        /\ UNCHANGED <<pageVars, prevRun, topK, display>>

(* TurnCoordinator *)

FinishUtterance ==
    /\ coord = "Synthesizing"
    /\ genDone
    /\ nextEmit = genCount
    /\ transcript' = Append(transcript, Turn("interviewer", turnNo, genCount))
    /\ coord' = "Delivering"
    /\ UNCHANGED <<buffer, lastResult, prompt, turnNo, cancelled, corpus,
                   passages, genCount, genDone, calls, ready, nextEmit,
                   delivered>>
    /\ UNCHANGED <<pageVars, prevRun, topK, display>>

DeliveryDone ==
    /\ coord = "Delivering"
    /\ coord' = "AwaitingStudent"
    /\ UNCHANGED <<buffer, lastResult, prompt, transcript, turnNo, cancelled,
                   corpus, passages, genCount, genDone, calls, ready,
                   nextEmit, delivered>>
    /\ UNCHANGED <<pageVars, prevRun, topK, display>>

\* variant: the interruption is noted but the turn keeps running
BargeInIgnored ==
    /\ coord \in {"Generating", "Synthesizing"}
    /\ cancelled' = cancelled \cup {turnNo}
    /\ UNCHANGED <<coord, buffer, lastResult, prompt, transcript, turnNo,
                   corpus, passages, genCount, genDone, calls, ready,
                   nextEmit, delivered>>
    /\ UNCHANGED <<pageVars, prevRun, topK, display>>

BargeIn ==
    /\ coord \in {"Generating", "Synthesizing"}
    /\ coord' = "Cancelling"
    /\ cancelled' = cancelled \cup {turnNo}
    /\ ready' = {}
    /\ UNCHANGED <<buffer, lastResult, prompt, transcript, turnNo, corpus,
                   passages, genCount, genDone, calls, nextEmit, delivered>>
    /\ UNCHANGED <<pageVars, prevRun, topK, display>>

CancelDone ==
    /\ coord = "Cancelling"
    /\ coord' = "AwaitingStudent"
    /\ UNCHANGED <<buffer, lastResult, prompt, transcript, turnNo, cancelled,
                   corpus, passages, genCount, genDone, calls, ready,
                   nextEmit, delivered>>
    /\ UNCHANGED <<pageVars, prevRun, topK, display>>

EndPipelineSession ==
    /\ coord # "Ended"
    /\ coord' = "Ended"
    /\ cancelled' = IF RequestActive /\ coord # "Delivering"
                    THEN cancelled \cup {turnNo} ELSE cancelled
    /\ ready' = {}
    /\ UNCHANGED <<buffer, lastResult, prompt, transcript, turnNo, corpus,
                   passages, genCount, genDone, calls, nextEmit, delivered>>
    /\ UNCHANGED <<pageVars, prevRun, topK, display>>

PipelineNext ==
    \/ SubmitChunkAccepted
    \/ SubmitChunkOutOfOrder
    \/ SubmitChunkTurnInProgress
    \/ TranscribeOk
    \/ TranscriptionUnavailable
    \/ Retrieve
    \/ GenerateSentence
    \/ GenerationComplete
    \/ SynthesizeOk
    \/ SynthesisUnavailable
    \/ EmitSegment
    \/ FinishUtterance
    \/ DeliveryDone
    \/ BargeIn
    \/ CancelDone
    \/ EndPipelineSession

PipelineSpec == PipelineInit /\ [][PipelineNext]_vars

(* retrieve on its own: the coordinator is in Retrieving for the first turn, *)
(* over every index and every top_k within the bounds                        *)

RetrieveInit ==
    /\ PageStart
    /\ coord = "Retrieving"
    /\ buffer = EmptyBuffer
    /\ lastResult = Submission(0, TRUE, "ack")
    /\ prompt = "none"
    /\ transcript = <<Turn("student", 1, "answer")>>
    /\ turnNo = 1
    /\ cancelled = {}
    /\ corpus \in Corpora(MaxCorpus)
    /\ topK \in 0..MaxTopK
    /\ passages = <<>>
    /\ genCount = 0
    /\ genDone = FALSE
    /\ calls = {}
    /\ ready = {}
    /\ nextEmit = 0
    /\ delivered = <<>>

RetrieveNext == Retrieve

RetrieveSpec == RetrieveInit /\ [][RetrieveNext]_vars

----------------------------------------------------------------------------
(* formatTime on its own: a demo session that has been open and idle for  *)
(* any number of seconds within the bound, whose header is rendered       *)

FormatInit ==
    /\ PipelineStart(<<>>)
    /\ startPc = "done"
    /\ sessionId = "demo-session"
    /\ isRecording = FALSE
    /\ isProcessing = FALSE
    /\ isAISpeaking = FALSE
    /\ messages = <<[id |-> <<1>>, role |-> "assistant",
                     content |-> "greeting", timestamp |-> 0]>>
    /\ score = NullScore
    /\ sessionEnded = FALSE
    /\ time \in 0..MaxSeconds
    /\ timers = <<>>
    /\ interval = IntervalDelay
    /\ clock = IntervalDelay * time
    /\ accepted = 0
    /\ prevRun = NoRun
    /\ display = NoDisplay

RenderHeader ==
    /\ display = NoDisplay
    /\ display' = formatTime(time)
    /\ UNCHANGED <<pageVars, prevRun, pipeVars>>

FormatNext == RenderHeader

FormatSpec == FormatInit /\ [][FormatNext]_vars

----------------------------------------------------------------------------
(* Derived notions used by the properties *)

NumTimers(k) == Cardinality({i \in 1..Len(timers) : timers[i].kind = k})

\* submitted utterances whose student Turn or interviewer reply is pending
InFlight == NumTimers("processing") + NumTimers("reply")

NumTurns(r, c) ==
    Cardinality({i \in 1..Len(messages) :
                    messages[i].role = r /\ messages[i].content = c})

IsPrefix(s, t) == Len(s) <= Len(t) /\ SubSeq(t, 1, Len(s)) = s

Alternates(s) == \A i \in 2..(Len(s) - 1) : s[i].role # s[i + 1].role

Busy == isProcessing \/ isAISpeaking

SubScoreSum(sc) ==
    sc.technical_accuracy + sc.clarity + sc.depth + sc.confidence
        + sc.communication

Abs(x) == IF x < 0 THEN -x ELSE x

----------------------------------------------------------------------------
(* Properties *)

\* C1: at most one pipeline request is in flight: never more than one
\* submitted utterance whose student Turn or interviewer reply is pending.
C1_AtMostOneInFlight == InFlight <= 1

C3_AppendOnly == [][IsPrefix(messages, messages')]_vars

\* C4: the transcript starts with the interviewer greeting and then
\* alternates student, interviewer, student, ...
C4_GreetingThenAlternating ==
    messages # <<>> =>
        /\ messages[1].role = "assistant"
        /\ messages[1].content = "greeting"
        /\ Len(messages) >= 2 => messages[2].role = "user"
        /\ Alternates(messages)

\* C5: while the session is open, every accepted utterance has contributed
\* exactly one student Turn (once its processing is over) and exactly one
\* interviewer Turn (once its reply is over).
C5_ExactlyOnce ==
    ~sessionEnded =>
        /\ NumTurns("user", "answer") + NumTimers("processing") = accepted
        /\ NumTurns("assistant", "followup") + InFlight = accepted

\* C6: after end-session the transcript is never written again.
C6_NoWriteAfterEnd == [][sessionEnded => messages' = messages]_vars

\* C7: in every state that is not Ended, end-session is enabled and leads
\* to Ended, and an Ended session never leaves Ended.
C7_EndedTerminalAndReachable ==
    /\ [](~sessionEnded => ENABLED EndSession)
    /\ [][EndSession => sessionEnded']_vars
    /\ [][sessionEnded => sessionEnded']_vars

C7_Witness == sessionEnded /\ InFlight > 0 /\ startPc = "fetching"

\* C8: in every state in which the session is marked ended, the Score is
\* present.
C8_EndedHasScore == sessionEnded => score = MockScore

C8_Witness == sessionEnded /\ score # NullScore

\* C9: once the Score is set, no later step changes it.
C9_ScoreImmutable == [][score # NullScore => score' = score]_vars

C9_Witness == score # NullScore /\ clock > 0 /\ Len(messages) > 1

\* C10: the overall score equals the mean of the five sub-scores, to the
\* nearest tenth (|overall - sum/5| <= 1/2 tenth).
C10_OverallIsMean ==
    score # NullScore =>
        2 * Abs(5 * score.overall - SubScoreSum(score)) <= 5

\* C11: every Score has its five sub-scores and its aggregate in [0,10]
\* (0..100 tenths).
C11_ScoreInRange ==
    score # NullScore =>
        /\ score.technical_accuracy \in 0..100
        /\ score.clarity \in 0..100
        /\ score.depth \in 0..100
        /\ score.confidence \in 0..100
        /\ score.communication \in 0..100
        /\ score.overall \in 0..100

C11_Witness == score # NullScore /\ score.overall > 0 /\ accepted > 0

\* C12: two runs of the page that end with the same transcript have the
\* same aggregate score.
C12_SameTranscriptSameOverall ==
    (/\ score # NullScore
     /\ prevRun # NoRun
     /\ Transcript(messages) = prevRun.transcript)
        => score.overall = prevRun.overall

C12_Witness ==
    /\ score # NullScore
    /\ prevRun # NoRun
    /\ Transcript(messages) = prevRun.transcript
    /\ Len(messages) >= 3
    /\ time > 0

\* C13: in the state right after start-session completes with a session,
\* the page is not recording, not processing and the interviewer is not
\* speaking.
C13_StartsAwaitingStudent ==
    [][(startPc = "fetching" /\ startPc' = "done" /\ sessionId' # "null")
          => (~isRecording' /\ ~isProcessing' /\ ~isAISpeaking')]_vars

InterviewerTurns(n) ==
    {i \in 1..Len(transcript) :
        transcript[i].speaker = "interviewer" /\ transcript[i].turn = n}

NoneAboveFloor == \A i \in 1..Len(corpus) : corpus[i] <= RelevanceFloor

\* C14: a turn cancelled in Generating or Synthesizing never gets an
\* interviewer Turn in the transcript, whatever happens later, and the
\* coordinator leaves Cancelling only for AwaitingStudent (or for Ended on
\* end-session).
C14_CancelledTurnNotRecorded ==
    /\ [](\A n \in cancelled : InterviewerTurns(n) = {})
    /\ [][(coord \in {"Generating", "Synthesizing"} /\ cancelled' # cancelled
             /\ coord' # "Ended") => coord' = "Cancelling"]_vars
    /\ [][(coord = "Cancelling" /\ coord' # coord)
             => coord' \in {"AwaitingStudent", "Ended"}]_vars

C14_Witness ==
    /\ cancelled = {1}
    /\ coord = "AwaitingStudent"
    /\ InterviewerTurns(2) # {}

\* C15: a chunk is accepted only when its sequence number is the buffer's
\* expected next value; any other chunk is answered OutOfOrderChunk and
\* changes neither the buffer nor the coordinator (no utterance is emitted).
C15_OutOfOrderChunkRejected ==
    /\ [](buffer.chunks = [i \in 1..buffer.expected |-> i - 1])
    /\ [][(lastResult' # lastResult /\ coord = "AwaitingStudent")
            => IF lastResult'.seq = buffer.expected
               THEN lastResult'.result = "ack"
               ELSE /\ lastResult'.result = "OutOfOrderChunk"
                    /\ buffer' = buffer
                    /\ coord' = "AwaitingStudent"
                    /\ turnNo' = turnNo
                    /\ transcript' = transcript]_vars

C15_Witness ==
    /\ buffer.chunks = <<0, 1>>
    /\ lastResult.seq = 3
    /\ lastResult.result = "OutOfOrderChunk"
    /\ coord = "AwaitingStudent"

\* C16: when transcription fails the coordinator goes from Transcribing
\* directly to AwaitingStudent with a retry prompt and an unchanged
\* transcript; a student Turn is written only by a successful transcription
\* and never with empty text.
C16_TranscriptionFailureRecoverable ==
    /\ [][(coord = "Transcribing"
             /\ coord' \notin {"Transcribing", "Retrieving", "Ended"})
            => (/\ coord' = "AwaitingStudent"
                /\ prompt' = "retry"
                /\ transcript' = transcript)]_vars
    /\ [][(coord = "Transcribing" /\ transcript' # transcript)
            => coord' = "Retrieving"]_vars
    /\ [](\A i \in 1..Len(transcript) :
            transcript[i].speaker = "student" => transcript[i].text # "")

C16_Witness ==
    /\ prompt = "retry"
    /\ coord = "AwaitingStudent"
    /\ turnNo = 1
    /\ transcript = <<>>

\* C17: the consumer receives the segments of one utterance in strictly
\* increasing sequence-index order, with no gap and no duplicate.
C17_SegmentsInOrder ==
    \A i \in 1..Len(delivered) : delivered[i].idx = i - 1

\* a later segment is synthesized while an earlier one is still awaited
C17_Witness ==
    /\ \E r \in ready : r.idx > nextEmit
    /\ \E c \in CurrentCalls : c.idx = nextEmit

\* C18: when the corpus is empty or has no passage above the relevance
\* floor, retrieval yields the empty sequence, and in every case the
\* coordinator goes on from Retrieving to Generating.
C18_EmptyRetrievalProceeds ==
    [][(coord = "Retrieving" /\ coord' \notin {"Retrieving", "Ended"})
         => (/\ coord' = "Generating"
             /\ NoneAboveFloor => passages' = <<>>)]_vars

C18_Witness ==
    /\ coord = "Generating"
    /\ passages = <<>>
    /\ corpus # <<>>

\* C19: retrieve returns at most top_k passages of the index, in descending
\* relevance, passages of equal relevance in insertion order.
C19_RankedStableTopK ==
    coord = "Generating" =>
        /\ Len(passages) <= topK
        /\ \A i \in 1..Len(passages) :
              /\ passages[i].doc \in 1..Len(corpus)
              /\ passages[i].relevance = corpus[passages[i].doc]
        /\ \A i, j \in 1..Len(passages) :
              i < j =>
                 \/ passages[i].relevance > passages[j].relevance
                 \/ /\ passages[i].relevance = passages[j].relevance
                    /\ passages[i].doc < passages[j].doc

C19_Witness ==
    /\ coord = "Generating"
    /\ topK = 2
    /\ Len(passages) = 2
    /\ passages[1].relevance = passages[2].relevance
    /\ Len(AboveFloor(corpus, Len(corpus))) > 2

\* C20: a synthesis call that fails leaves a segment (the plain text) in the
\* output queue like one that succeeds, and changes neither the coordinator
\* state nor the transcript; the interviewer Turn of a turn is appended
\* once, when every segment has been handed over.
C20_SynthesisFailureFallsBackToText ==
    /\ [][(calls' # calls /\ calls' \subseteq calls)
            => (/\ coord' = coord
                /\ transcript' = transcript
                /\ \A c \in calls \ calls' :
                      c.turn \notin cancelled
                          => \E r \in ready' : r.idx = c.idx)]_vars
    /\ [](\A n \in 1..turnNo : Cardinality(InterviewerTurns(n)) <= 1)
    /\ [](coord = "Delivering"
            => (/\ Cardinality(InterviewerTurns(turnNo)) = 1
                /\ Len(delivered) = genCount))

C20_Witness ==
    /\ coord = "AwaitingStudent"
    /\ InterviewerTurns(turnNo) # {}
    /\ \E i \in 1..Len(delivered) : delivered[i].kind = "text"

AppendsTurn(r, c) ==
    /\ Len(messages') = Len(messages) + 1
    /\ SubSeq(messages', 1, Len(messages)) = messages
    /\ messages'[Len(messages')].role = r
    /\ messages'[Len(messages')].content = c

\* C21: while the session is open, whenever an interviewer reply is still
\* pending the page is in the interviewer-speaking state (so the record
\* button is disabled).
C21_ReplyPendingMeansSpeaking ==
    (~sessionEnded /\ NumTimers("reply") > 0) => isAISpeaking

\* C23: the Turn timestamps are non-decreasing along the transcript, a reply
\* is scheduled only by the step that appends the student Turn, and an
\* interviewer reply is appended only by the step that consumes a scheduled
\* reply.
C23_ChronologicalOrder ==
    /\ [](\A i \in 1..(Len(messages) - 1) :
            messages[i].timestamp <= messages[i + 1].timestamp)
    /\ [][NumTimers("reply")' > NumTimers("reply")
            => AppendsTurn("user", "answer")]_vars
    /\ [][AppendsTurn("assistant", "followup")
            => NumTimers("reply")' = NumTimers("reply") - 1]_vars

C23_Witness ==
    /\ Len(messages) >= 3
    /\ messages[2].role = "user"
    /\ messages[3].role = "assistant"
    /\ messages[1].timestamp < messages[2].timestamp
    /\ messages[2].timestamp < messages[3].timestamp

\* C24: at most one of isRecording, isProcessing and isAISpeaking is true.
C24_FlagsExclusive ==
    /\ ~(isRecording /\ isProcessing)
    /\ ~(isRecording /\ isAISpeaking)
    /\ ~(isProcessing /\ isAISpeaking)

\* C25: while the session id is unset, the transcript is empty and no turn
\* is pending.
C25_NothingBeforeSession ==
    sessionId = "null" => (messages = <<>> /\ InFlight = 0 /\ accepted = 0)

\* C26: once startSession has completed, whatever the outcome of the
\* request, the session id is set and the transcript contains the greeting.
C26_StartAlwaysUsable ==
    startPc = "done" =>
        /\ sessionId # "null"
        /\ \E i \in 1..Len(messages) : messages[i].content = "greeting"

\* C27: the elapsed-time counter changes only by +1, and only while the
\* session id is set and the session is not ended.
C27_TimeOnlyWhileOpen ==
    [][time' # time
         => (time' = time + 1 /\ sessionId # "null" /\ ~sessionEnded)]_vars

C27_Witness == sessionEnded /\ time > 0 /\ clock > 2 * time + 2

\* C28: once the session is ended, no step changes isRecording or accepts
\* an utterance.
C28_NoUtteranceAfterEnd ==
    [][sessionEnded
         => (isRecording' = isRecording /\ accepted' = accepted)]_vars

C28_Witness == sessionEnded /\ isRecording /\ clock > 0

\* C29: the message at position i has id String(i), so ids are unique.
C29_IdsArePositions ==
    /\ \A i \in 1..Len(messages) : messages[i].id = String(i)
    /\ \A i, j \in 1..Len(messages) :
          i # j => messages[i].id # messages[j].id

C29_Witness ==
    /\ Len(messages) >= 3
    /\ startPc = "done"
    /\ messages[1].timestamp > 0

\* C22: every utterance accepted early enough for its two delays to elapse
\* within the modelled time eventually brings the page back to awaiting the
\* student (not processing, interviewer not speaking) or to Ended.
C22_TurnLoopReturns ==
    (isProcessing /\ clock + ProcessingDelay + ReplyDelay <= MaxClock)
        ~> ((~isProcessing /\ ~isAISpeaking) \/ sessionEnded)

C22_Witness ==
    /\ accepted > 0
    /\ timers = <<>>
    /\ ~isProcessing
    /\ ~isAISpeaking
    /\ ~sessionEnded
    /\ NumTurns("assistant", "followup") > 0

RECURSIVE Value(_)
\* the number written by a sequence of decimal digits
Value(ds) ==
    IF ds = <<>> THEN 0 ELSE 10 * Value(SubSeq(ds, 1, Len(ds) - 1)) + ds[Len(ds)]

\* C30: the rendered time is minutes ':' seconds, each of at least two
\* decimal digits, with minutes = floor(s/60), seconds = s mod 60 in 0..59,
\* and minutes*60 + seconds = s.
C30_FormatTimeExact ==
    display # NoDisplay =>
        \E p \in 1..Len(display) :
            LET m == SubSeq(display, 1, p - 1)
                sec == SubSeq(display, p + 1, Len(display))
            IN  /\ display[p] = Colon
                /\ \A q \in 1..Len(m) : m[q] \in 0..9
                /\ \A q \in 1..Len(sec) : sec[q] \in 0..9
                /\ Len(m) >= 2
                /\ Len(sec) >= 2
                /\ Value(m) = time \div 60
                /\ Value(sec) = time % 60
                /\ Value(sec) \in 0..59
                /\ Value(m) * 60 + Value(sec) = time

C30_Witness ==
    /\ display = <<1, 0, 0, Colon, 0, 5>>
    /\ time = 6005

====
